---- MODULE Spec2Model ----
(***************************************************************************)
(* EdgeSplitModifier.modify (src/src/modifiers/EdgeSplitModifier.ts) as a  *)
(* state machine.  One call of modify runs through the steps               *)
(*   Prepare -> BuildTables -> SplitAll -> Rebuild -> ReconcileNormals     *)
(* on an input mesh drawn from a bounded family; Refuse, MergeVertices and *)
(* MergeThrow are the steps of the inputs that are not indexed             *)
(* BufferGeometry.                                                         *)
(*                                                                         *)
(* Numbers.  Positions and uv values are integers.  A component of a       *)
(* normal is a pair <<x, n>> standing for the real x / sqrt(n); an         *)
(* integer k is <<k, 1>>.  The three components of a normalized vector     *)
(* share n; a zero component is always <<0, 1>>.  Arithmetic is exact:     *)
(* the rounding of Float32Array is not modelled.  JS arrays are 0-based;   *)
(* At(a, i) reads a[i].                                                    *)
(***************************************************************************)
EXTENDS Integers, Sequences, FiniteSets, TLC

VARIABLES
    geometry,         \* the caller's mesh: [index, attributes]
    given,            \* the caller's mesh as it was when modify was called
    isGeometry,       \* geometry.isGeometry === true
    indexed,          \* geometry.index is not null
    utilsDefined,     \* BufferGeometryUtils !== undefined
    local,            \* the object the local `geometry` refers to:
                      \* "caller", "clone", "merged" or "new"
    cutOffAngle,      \* parameter of modify, one of Angles
    tryKeepNormals,   \* parameter of modify
    pc,               \* position inside modify
    hadNormals,       \* local hadNormals
    oldNormals,       \* local oldNormals: [isNull, array]
    work,             \* local `geometry` after the clone / deleteAttribute
    normals,          \* local normals: 3 components per corner
    pointToIndexMap,  \* local pointToIndexMap: per vertex [hole, list]
    splitIndexes,     \* local splitIndexes: sequence of [original, indexes]
    groups,           \* per vertex, every group edgeSplit emitted, in order
    result,           \* the returned mesh, or NoMesh
    scratch,          \* the module-level vectors _A, _B, _C: [A, B, C]
    calls,            \* how many times modify has been called
    returned,         \* the earlier calls: sequence of [input, output]
    ray,              \* a Ray: [origin, direction]
    cone,             \* a Cone: [v, axis, inf, sup]
    hit,              \* what intersectCone returned: [called, value],
                      \* the value being [isNull, point]
    frustum,          \* a ConeFrustum: [base, axis, height, radius0, radius1]
    cloned,           \* what frustum.clone() returned: [called, value]
    heap,             \* the Vector3 objects intersectsConeFrustum writes
    hits              \* what the calls of intersectsConeFrustum returned,
                      \* oldest first: sequence of [ref, point]

vars == <<geometry, given, isGeometry, indexed, utilsDefined, local, cutOffAngle, tryKeepNormals, pc, hadNormals, oldNormals,
          work, normals, pointToIndexMap, splitIndexes, groups, result,
          scratch, calls, returned, ray, cone, hit, frustum, cloned, heap, hits>>

\* what no step of modify assigns
params == <<given, isGeometry, indexed, utilsDefined, cutOffAngle, tryKeepNormals>>

\* the record of the calls of modify, which only a new call extends
history == <<calls, returned>>

\* the state of src/geometries, which modify does not touch
geo == <<ray, cone, hit, frustum, cloned, heap, hits>>

----------------------------------------------------------------------------
(* Bounds and program constants *)

\* largest number of triangles of an input mesh
MaxTris == 3

\* largest number of triangles around the vertex of an input fan
MaxFan == 5

\* `null` as the value of edgeSplit's parameter `original`
Null == -1

\* the margin 0.001 subtracted from cos(cutOffAngle) is 1 / Scale
Scale == 1000

----------------------------------------------------------------------------
(* Arrays and vectors *)

At(a, i) == a[i + 1]

Abs(x) == IF x < 0 THEN 0 - x ELSE x

RECURSIVE Gcd(_, _)
Gcd(a, b) == IF b = 0 THEN Abs(a) ELSE Gcd(Abs(b), Abs(a) % Abs(b))

Sub(a, b) == <<a[1] - b[1], a[2] - b[2], a[3] - b[3]>>

Add(a, b) == <<a[1] + b[1], a[2] + b[2], a[3] + b[3]>>

\* Vector3.cross: this x v
Cross(a, b) == <<a[2] * b[3] - a[3] * b[2],
                 a[3] * b[1] - a[1] * b[3],
                 a[1] * b[2] - a[2] * b[1]>>

\* a real number x / sqrt(n); zero is <<0, 1>>
Scalar(x, n) == IF x = 0 THEN <<0, 1>> ELSE <<x, n>>

\* NaN: what arithmetic on `undefined`, the value of a read past the end
\* of an array, gives
NaN == <<0, 0>>

\* a vector with a NaN component
IsNaN(u) == NaN \in {u[1], u[2], u[3]}

\* the common n of the components of a vector of scalars
DenOf(u) ==
    IF u[1][1] # 0 THEN u[1][2]
    ELSE IF u[2][1] # 0 THEN u[2][2]
    ELSE IF u[3][1] # 0 THEN u[3][2]
    ELSE 1

\* normalize as a plain division by length(), without || 1: the zero
\* vector becomes 0 / 0
NormalizeUnguarded(u) ==
    LET x == <<u[1][1], u[2][1], u[3][1]>>
        g == Gcd(Gcd(x[1], x[2]), x[3])
    IN  IF IsNaN(u) \/ g = 0 THEN <<NaN, NaN, NaN>>
        ELSE LET y == <<x[1] \div g, x[2] \div g, x[3] \div g>>
                 n == y[1] * y[1] + y[2] * y[2] + y[3] * y[3]
             IN  <<Scalar(y[1], n), Scalar(y[2], n), Scalar(y[3], n)>>

\* Vector3.normalize: divideScalar( length() || 1 ).  The vector
\* (x1, x2, x3) / sqrt(n) has length sqrt((x1^2 + x2^2 + x3^2) / n), so its
\* normalization is (x1, x2, x3) / sqrt(x1^2 + x2^2 + x3^2), written with
\* the common factor of the xi removed.  The zero vector stays zero
\* (length() || 1 is 1), and NaN stays NaN (NaN || 1 is 1 too).
Normalize(u) ==
    LET x == <<u[1][1], u[2][1], u[3][1]>>
        g == Gcd(Gcd(x[1], x[2]), x[3])
    IN  IF IsNaN(u) THEN <<NaN, NaN, NaN>>
        ELSE IF g = 0 THEN <<Scalar(0, 1), Scalar(0, 1), Scalar(0, 1)>>
        ELSE LET y == <<x[1] \div g, x[2] \div g, x[3] \div g>>
                 n == y[1] * y[1] + y[2] * y[2] + y[3] * y[3]
             IN  <<Scalar(y[1], n), Scalar(y[2], n), Scalar(y[3], n)>>

\* an integer vector as a vector of scalars
IntVec(v) == <<Scalar(v[1], 1), Scalar(v[2], 1), Scalar(v[3], 1)>>

\* the three consecutive entries of a flat array that start at 3 * i
Vec3At(a, i) == <<At(a, 3 * i), At(a, 3 * i + 1), At(a, 3 * i + 2)>>

\* the item of vertex slot v in an attribute: its itemSize consecutive
\* entries from v * itemSize on
ItemAt(attribute, v) ==
    [j \in 1..attribute.itemSize |-> attribute.array[v * attribute.itemSize + j]]

----------------------------------------------------------------------------
(* The threshold *)

\* the values of cutOffAngle the model draws from
Angles == {"0", "pi/3", "pi/2", "pi"}

\* the cosine without its sign
CosUnsigned(angle) ==
    CASE angle = "0" -> Scale
      [] angle = "pi/3" -> Scale \div 2
      [] angle = "89deg" -> 17
      [] angle = "pi/2" -> 0
      [] angle = "pi" -> Scale

\* Math.cos( cutOffAngle ), in units of 1 / Scale; "89deg" is 89 degrees,
\* whose cosine 0.01745... is cut to 0.017
Cos(angle) ==
    CASE angle = "0" -> Scale
      [] angle = "pi/3" -> Scale \div 2
      [] angle = "89deg" -> 17
      [] angle = "pi/2" -> 0
      [] angle = "pi" -> 0 - Scale

\* the threshold with the margin 0.001 added instead of subtracted
CutOffMarginAdded(angle) == Cos(angle) + 1

\* the threshold with a margin of 1 instead of 0.001
CutOffUnitMargin(angle) == Cos(angle) - Scale

\* Math.cos( cutOffAngle ) - 0.001, in units of 1 / Scale
CutOff(angle) == Cos(angle) - 1

\* _B.dot( _A ) < cutOff, for u = _B and w = _A.  The dot product is
\* d / sqrt(m) with d the integer sum of products and m the product of the
\* two common n; d / sqrt(m) < c / Scale is decided on the squares.  A
\* comparison with NaN is false.
DotLess(u, w, c) ==
    LET d == u[1][1] * w[1][1] + u[2][1] * w[2][1] + u[3][1] * w[3][1]
        m == DenOf(u) * DenOf(w)
    IN  IF IsNaN(u) \/ IsNaN(w) THEN FALSE
        ELSE IF d >= 0
        THEN c > 0 /\ Scale * Scale * d * d < c * c * m
        ELSE c >= 0 \/ Scale * Scale * d * d > c * c * m

----------------------------------------------------------------------------
(* computeNormals and mapPositionsToIndexes *)

\* index is a vertex of the position array
InRange(positions, index) == 3 * index + 2 < Len(positions)

\* the face normal of the triangle whose first corner is slot i.  The
\* position of a vertex past the end of the array is undefined, undefined,
\* undefined, which makes every component of both differences, and so of
\* the cross product, NaN.
FaceNormal(indexes, positions, i) ==
    IF \E j \in 0..2 : ~InRange(positions, At(indexes, i + j))
    THEN <<NaN, NaN, NaN>>
    ELSE LET A == Vec3At(positions, At(indexes, i))
             B == Vec3At(positions, At(indexes, i + 1))
             C == Vec3At(positions, At(indexes, i + 2))
         IN  Normalize(IntVec(Cross(Sub(C, B), Sub(A, B))))

\* computeNormals: the normals array, 3 components for each corner, every
\* corner of a triangle holding the triangle's face normal
ComputeNormalsOf(indexes, positions) ==
    LET face == [t \in 1..(Len(indexes) \div 3) |->
                    FaceNormal(indexes, positions, 3 * (t - 1))]
    IN  [k \in 1..(3 * Len(indexes)) |-> face[((k - 1) \div 9) + 1][((k - 1) % 3) + 1]]

\* the slots 0 .. n-1 in ascending order
Slots(n) == [i \in 1..n |-> i - 1]

\* the slot put in front of the list instead of pushed at its end
PushSlotFront(map, index, i) ==
    LET grown == IF index < Len(map) THEN map
                 ELSE map \o [k \in 1..(index + 1 - Len(map)) |->
                                 [hole |-> TRUE, list |-> <<>>]]
    IN  [grown EXCEPT ![index + 1] = [hole |-> FALSE, list |-> <<i>> \o @.list]]

\* lines 61-69 for slot i: pointToIndexMap[ index ] becomes [] if it was a
\* hole, then receives i at its end.  An assignment past the end of the
\* array lengthens it and leaves holes in between.
PushSlot(map, index, i) ==
    LET grown == IF index < Len(map) THEN map
                 ELSE map \o [k \in 1..(index + 1 - Len(map)) |->
                                 [hole |-> TRUE, list |-> <<>>]]
    IN  [grown EXCEPT ![index + 1] = [hole |-> FALSE, list |-> Append(@.list, i)]]

\* the loop of lines 59-71 from the state loop = [i, map] on: i is the
\* slot the next turn handles, map is pointToIndexMap so far
RECURSIVE PushSlots(_, _)
PushSlots(loop, indexes) ==
    IF loop.i >= Len(indexes) THEN loop.map
    ELSE PushSlots([i |-> loop.i + 1,
                    map |-> PushSlot(loop.map, At(indexes, loop.i), loop.i)],
                   indexes)

\* mapPositionsToIndexes: Array( positions.length / 3 ), all holes, then
\* every slot pushed on the list of the vertex it references
MapPositionsToIndexesOf(indexes, positions) ==
    PushSlots([i |-> 0,
               map |-> [v1 \in 1..(Len(positions) \div 3) |->
                           [hole |-> TRUE, list |-> <<>>]]],
              indexes)

----------------------------------------------------------------------------
(* edgeSplitToGroups and edgeSplit *)

\* edgeSplitToGroups without the test j !== firstIndex on the current group
edgeSplitToGroupsKeepSeed(nrm, indexes, cutOff, firstIndex) ==
    LET A == Normalize(Vec3At(nrm, firstIndex))
        Below(j) == DotLess(Normalize(Vec3At(nrm, j)), A, cutOff)
        InSplit(j) == j # firstIndex /\ Below(j)
        InCurrent(j) == ~Below(j)
    IN  [splitGroup |-> SelectSeq(indexes, InSplit),
         currentGroup |-> <<firstIndex>> \o SelectSeq(indexes, InCurrent)]

\* edgeSplitToGroups with the two branches of the threshold test exchanged
edgeSplitToGroupsReversed(nrm, indexes, cutOff, firstIndex) ==
    LET A == Normalize(Vec3At(nrm, firstIndex))
        Below(j) == DotLess(Normalize(Vec3At(nrm, j)), A, cutOff)
        InSplit(j) == j # firstIndex /\ ~Below(j)
        InCurrent(j) == j # firstIndex /\ Below(j)
    IN  [splitGroup |-> SelectSeq(indexes, InSplit),
         currentGroup |-> <<firstIndex>> \o SelectSeq(indexes, InCurrent)]

\* edgeSplitToGroups( indexes, cutOff, firstIndex ), on the normals nrm
edgeSplitToGroups(nrm, indexes, cutOff, firstIndex) ==
    LET A == Normalize(Vec3At(nrm, firstIndex))
        Below(j) == DotLess(Normalize(Vec3At(nrm, j)), A, cutOff)
        InSplit(j) == j # firstIndex /\ Below(j)
        InCurrent(j) == j # firstIndex /\ ~Below(j)
    IN  [splitGroup |-> SelectSeq(indexes, InSplit),
         currentGroup |-> <<firstIndex>> \o SelectSeq(indexes, InCurrent)]

\* the scan of groupResults that never replaces groupResults[0]
PickResultFirst(groupResults, k, best) == groupResults[1]

\* the scan of groupResults with the comparison turned round
RECURSIVE PickResultSmallest(_, _, _)
PickResultSmallest(groupResults, k, best) ==
    IF k > Len(groupResults) THEN best
    ELSE PickResultSmallest(groupResults, k + 1,
            IF Len(groupResults[k].currentGroup) < Len(best.currentGroup)
            THEN groupResults[k] ELSE best)

\* the scan of groupResults that also replaces the choice by a result of
\* the same length
RECURSIVE PickResultLatest(_, _, _)
PickResultLatest(groupResults, k, best) ==
    IF k > Len(groupResults) THEN best
    ELSE PickResultLatest(groupResults, k + 1,
            IF Len(groupResults[k].currentGroup) >= Len(best.currentGroup)
            THEN groupResults[k] ELSE best)

\* the scan of groupResults that ends on the last result
PickResultEnd(groupResults, k, best) == groupResults[Len(groupResults)]

\* the scan of groupResults: start from groupResults[0], replace the choice
\* by each later result whose currentGroup is strictly longer
RECURSIVE PickResult(_, _, _)
PickResult(groupResults, k, best) ==
    IF k > Len(groupResults) THEN best
    ELSE PickResult(groupResults, k + 1,
            IF Len(groupResults[k].currentGroup) > Len(best.currentGroup)
            THEN groupResults[k] ELSE best)

\* `original` passed on as it is, without || result.currentGroup[ 0 ]
OriginalOrNoFallback(original, first) == original

\* original || result.currentGroup[ 0 ]: null and 0 are both falsy
OriginalOr(original, first) ==
    IF original = Null \/ original = 0 THEN first ELSE original

\* edgeSplit without the tests of indexes.length (line 112) and of
\* result.splitGroup.length (line 144): it calls itself on an empty split
\* group too, which emits an empty group
RECURSIVE edgeSplitNoLengthTest(_, _, _, _)
edgeSplitNoLengthTest(nrm, indexes, cutOff, original) ==
    IF Len(indexes) = 0 THEN <<[original |-> original, indexes |-> <<>>]>>
    ELSE LET groupResults ==
                 [k \in 1..Len(indexes) |->
                     edgeSplitToGroups(nrm, indexes, cutOff, indexes[k])]
             res == PickResult(groupResults, 1, groupResults[1])
         IN  <<[original |-> original, indexes |-> res.currentGroup]>> \o
             edgeSplitNoLengthTest(nrm, res.splitGroup, cutOff,
                                   OriginalOr(original, res.currentGroup[1]))

\* edgeSplit that emits what is left after the first group as one second
\* group, without calling itself again
edgeSplitOnce(nrm, indexes, cutOff, original) ==
    IF Len(indexes) = 0 THEN <<>>
    ELSE LET groupResults ==
                 [k \in 1..Len(indexes) |->
                     edgeSplitToGroups(nrm, indexes, cutOff, indexes[k])]
             res == PickResult(groupResults, 1, groupResults[1])
         IN  <<[original |-> original, indexes |-> res.currentGroup]>> \o
             (IF Len(res.splitGroup) # 0
              THEN <<[original |-> OriginalOr(original, res.currentGroup[1]),
                      indexes |-> res.splitGroup]>>
              ELSE <<>>)

\* edgeSplit( indexes, cutOff, original ): the groups it emits, in order,
\* each with the value of `original` of the call that emitted it.  The
\* groups whose original is not null are the ones pushed on splitIndexes.
RECURSIVE edgeSplit(_, _, _, _)
edgeSplit(nrm, indexes, cutOff, original) ==
    IF Len(indexes) = 0 THEN <<>>
    ELSE LET groupResults ==
                 [k \in 1..Len(indexes) |->
                     edgeSplitToGroups(nrm, indexes, cutOff, indexes[k])]
             res == PickResult(groupResults, 1, groupResults[1])
             emitted == [original |-> original, indexes |-> res.currentGroup]
         IN  <<emitted>> \o
             (IF Len(res.splitGroup) # 0
              THEN edgeSplit(nrm, res.splitGroup, cutOff,
                             OriginalOr(original, res.currentGroup[1]))
              ELSE <<>>)

IsPushed(g) == g.original # Null

\* the vertex position _A.set / _B.set / _C.set reads for vertex `index`:
\* past the end of the array every component is undefined, NaN in a Vector3
PositionOrNaN(positions, index) ==
    IF InRange(positions, index) THEN IntVec(Vec3At(positions, index))
    ELSE <<NaN, NaN, NaN>>

\* _A, _B, _C when computeNormals returns: those of its last triangle,
\* _A after _A.sub( _B ), _B as set, _C after _C.sub( _B ), cross( _A ) and
\* normalize(); untouched when there is no triangle
ScratchAfterNormals(s, indexes, positions) ==
    IF Len(indexes) < 3 THEN s
    ELSE LET i == 3 * ((Len(indexes) \div 3) - 1)
             A == PositionOrNaN(positions, At(indexes, i))
             B == PositionOrNaN(positions, At(indexes, i + 1))
         IN  [A |-> IF IsNaN(A) \/ IsNaN(B) THEN <<NaN, NaN, NaN>>
                    ELSE IntVec(Sub(Vec3At(positions, At(indexes, i)),
                                    Vec3At(positions, At(indexes, i + 1)))),
              B |-> B,
              C |-> FaceNormal(indexes, positions, i)]

\* _A, _B, _C when edgeSplit( indexes, cutOff, .. ) returns: the last call
\* of edgeSplitToGroups on a list has the last element of the list as its
\* firstIndex (in _A) and compares it with the element before it (in _B,
\* which a list of one element leaves alone); the call of edgeSplit on the
\* split group comes after it
RECURSIVE ScratchOfSplit(_, _, _, _)
ScratchOfSplit(s, nrm, indexes, cutOff) ==
    IF Len(indexes) = 0 THEN s
    ELSE LET groupResults ==
                 [k \in 1..Len(indexes) |->
                     edgeSplitToGroups(nrm, indexes, cutOff, indexes[k])]
             res == PickResult(groupResults, 1, groupResults[1])
             after ==
                 [A |-> Normalize(Vec3At(nrm, indexes[Len(indexes)])),
                  B |-> IF Len(indexes) >= 2
                        THEN Normalize(Vec3At(nrm, indexes[Len(indexes) - 1]))
                        ELSE s.B,
                  C |-> s.C]
         IN  IF Len(res.splitGroup) # 0
             THEN ScratchOfSplit(after, nrm, res.splitGroup, cutOff)
             ELSE after

\* _A, _B, _C after edgeSplit on the first n entries of the map
RECURSIVE ScratchAfterSplits(_, _, _, _, _)
ScratchAfterSplits(s, nrm, map, cutOff, n) ==
    IF n = 0 THEN s
    ELSE ScratchOfSplit(ScratchAfterSplits(s, nrm, map, cutOff, n - 1),
                        nrm, map[n].list, cutOff)

\* the array of line 197 that keeps the records of the call before
ReusedArray(previous) == previous

\* const splitIndexes = []: a new array for every call
FreshArray(previous) == <<>>

----------------------------------------------------------------------------
(* The input meshes *)

\* the value of a mesh variable that holds nothing yet
NoMesh == [index |-> <<>>, attributes |-> [n \in {} |-> 0]]

\* the position of vertex k is Pts[k + 1]: the corners of a tetrahedron
Pts == << <<1, 1, 1>>, <<2, 1, 1>>, <<1, 2, 1>>, <<1, 1, 2>> >>

\* the uv of vertex k
UvOf(k) == <<k + 1, 2 * k + 1>>

\* the vertex counts of the input meshes
VertexCounts == {3, 4}

\* the triangles an input index buffer is made of: both windings of the
\* face 0 1 2 and a rotation of it, the faces 1 0 3 and 1 2 3, and a
\* degenerate triangle
TriangleMenu ==
    { <<0, 1, 2>>, <<0, 2, 1>>, <<2, 0, 1>>, <<1, 0, 3>>, <<1, 2, 3>>,
      <<0, 0, 1>> }

MenuOf(V) == {t \in TriangleMenu : \A j \in 1..3 : t[j] < V}

\* the index buffer of a sequence of triangles
IndexOf(tris) ==
    [k \in 1..(3 * Len(tris)) |-> tris[((k - 1) \div 3) + 1][((k - 1) % 3) + 1]]

PositionArray(V) == [k \in 1..(3 * V) |-> Pts[((k - 1) \div 3) + 1][((k - 1) % 3) + 1]]

UvArray(V) == [k \in 1..(2 * V) |-> UvOf((k - 1) \div 2)[((k - 1) % 2) + 1]]

\* the authored normal of vertex k, not always of length 1
AuthoredNormal(k) ==
    << <<0, 0, -1>>, <<0, 2, 0>>, <<1, 0, 0>>, <<0, 0, 1>> >>[k + 1]

NormalArray(V) ==
    [k \in 1..(3 * V) |->
        IntVec(AuthoredNormal((k - 1) \div 3))[((k - 1) % 3) + 1]]

\* an indexed BufferGeometry with position and uv, and with normal when
\* withNormals
MeshOf(V, tris, withNormals) ==
    LET base == [n \in {"position", "uv"} |->
                    IF n = "position"
                    THEN [array |-> PositionArray(V), itemSize |-> 3]
                    ELSE [array |-> UvArray(V), itemSize |-> 2]]
        all == [n \in {"position", "uv", "normal"} |->
                    IF n = "normal"
                    THEN [array |-> NormalArray(V), itemSize |-> 3]
                    ELSE base[n]]
    IN  [index |-> IndexOf(tris),
         attributes |-> IF withNormals THEN all ELSE base]

\* lines 4-6: the three module-level vectors, (0, 0, 0) when the module is
\* loaded
ZeroScratch ==
    [A |-> IntVec(<<0, 0, 0>>), B |-> IntVec(<<0, 0, 0>>), C |-> IntVec(<<0, 0, 0>>)]

\* the module has just been loaded and modify is called for the first time
FirstCall ==
    /\ scratch = ZeroScratch
    /\ calls = 1
    /\ returned = <<>>

\* no hit: the null that intersectCone and intersectsConeFrustum return
NoHit == [isNull |-> TRUE, point |-> <<0, 0, 0>>]

\* intersectCone has not been called
NotCalled == [called |-> FALSE, value |-> NoHit]

\* no ConeFrustum: the undefined a method without return statement returns
Undefined ==
    [isUndefined |-> TRUE, base |-> <<0, 0, 0>>, axis |-> <<0, 0, 0>>,
     height |-> 0, radius0 |-> 0, radius1 |-> 0]

\* clone has not been called
NotCloned == [called |-> FALSE, value |-> Undefined]

\* new ConeFrustum(): base (0, 0, 0), axis (0, 1, 0), height 1, radii 0
NewConeFrustum ==
    [isUndefined |-> FALSE, base |-> <<0, 0, 0>>, axis |-> <<0, 1, 0>>,
     height |-> 1, radius0 |-> 0, radius1 |-> 0]

\* the objects of src/geometries while only modify is looked at: a ray
\* from the origin along -z, a cone and a frustum at the origin, the
\* static target2 of intersectsConeFrustum at (0, 0, 0), and no call made
GeoIdle ==
    /\ ray = [origin |-> <<0, 0, 0>>, direction |-> <<0, 0, -1>>]
    /\ cone = [v |-> <<0, 0, 0>>, axis |-> <<0, 0, 1>>, theta |-> "pi/4",
               inf |-> 0, sup |-> 1]
    /\ hit = NotCalled
    /\ frustum = NewConeFrustum
    /\ cloned = NotCloned
    /\ heap = [o \in {"target2"} |-> <<0, 0, 0>>]
    /\ hits = <<>>

Init ==
    /\ \E V \in VertexCounts, withNormals \in BOOLEAN, T \in 1..MaxTris :
          \E tris \in [1..T -> MenuOf(V)] :
             geometry = MeshOf(V, tris, withNormals)
    /\ given = geometry
    /\ isGeometry = FALSE
    /\ indexed = TRUE
    /\ utilsDefined = TRUE
    /\ local = "caller"
    /\ cutOffAngle \in Angles
    /\ tryKeepNormals \in BOOLEAN
    /\ pc = "start"
    /\ hadNormals = FALSE
    /\ oldNormals = [isNull |-> TRUE, array |-> <<>>]
    /\ work = NoMesh
    /\ normals = <<>>
    /\ pointToIndexMap = <<>>
    /\ splitIndexes = <<>>
    /\ groups = <<>>
    /\ result = NoMesh
    /\ FirstCall
    /\ GeoIdle

----------------------------------------------------------------------------
(* modify, step by step *)

WithoutNormal(attrs) == [n \in (DOMAIN attrs) \ {"normal"} |-> attrs[n]]

\* lines 152-157: a legacy Geometry is refused: console.error, then a
\* return without a value
Refuse ==
    /\ pc = "start"
    /\ isGeometry
    /\ pc' = "refused"
    /\ UNCHANGED <<geometry, local, params, history, scratch, geo, hadNormals, oldNormals, work, normals,
                   pointToIndexMap, splitIndexes, groups, result>>

\* the local `geometry` left as it is, where line 166 assigns the clone
CloneOfNothing(object) == object

\* geometry.clone(): a new object with copies of the index and of every
\* attribute array
CloneOf(object) == "clone"

\* lines 159-176: hadNormals, the clone, oldNormals, deleteAttribute.
\* deleteAttribute acts on the object the local `geometry` refers to.
Prepare ==
    /\ pc = "start"
    /\ ~isGeometry
    /\ LET had == "normal" \in DOMAIN geometry.attributes
       IN  /\ hadNormals' = had
           /\ local' = IF had THEN CloneOf(local) ELSE local
           /\ oldNormals' =
                IF had /\ tryKeepNormals /\ indexed
                THEN [isNull |-> FALSE, array |-> geometry.attributes["normal"].array]
                ELSE [isNull |-> TRUE, array |-> <<>>]
           /\ work' = [index |-> geometry.index,
                       attributes |-> WithoutNormal(geometry.attributes)]
           /\ geometry' =
                IF had /\ local' = "caller"
                THEN [index |-> geometry.index,
                      attributes |-> WithoutNormal(geometry.attributes)]
                ELSE geometry
    /\ pc' = IF indexed THEN "tables" ELSE "merge"
    /\ UNCHANGED <<params, history, scratch, geo, normals, pointToIndexMap, splitIndexes, groups, result>>

\* the missing BufferGeometryUtils reported like the legacy Geometry: a
\* return without a value instead of the throw
MergeThrowReturns ==
    /\ pc = "merge"
    /\ ~utilsDefined
    /\ pc' = "refused"
    /\ UNCHANGED <<geometry, local, params, history, scratch, geo, hadNormals, oldNormals, work, normals,
                   pointToIndexMap, splitIndexes, groups, result>>

\* lines 178-184: no index and no BufferGeometryUtils
MergeThrow ==
    /\ pc = "merge"
    /\ ~utilsDefined
    /\ pc' = "threw"
    /\ UNCHANGED <<geometry, local, params, history, scratch, geo, hadNormals, oldNormals, work, normals,
                   pointToIndexMap, splitIndexes, groups, result>>

\* BufferGeometryUtils.mergeVertices of three.js on a geometry without
\* index: vertex i is kept when no earlier vertex has the same values in
\* every attribute, the kept vertices are numbered in order, and the index
\* gives for each vertex i the number of the kept vertex equal to it.  The
\* result is a new geometry; the argument is left as it is.
MergeVerticesOf(geom) ==
    LET count == Len(geom.attributes["position"].array) \div 3
        Key(i) == [n \in DOMAIN geom.attributes |-> ItemAt(geom.attributes[n], i)]
        IsFirst(i) == \A j \in 0..(i - 1) : Key(j) # Key(i)
        firsts == SelectSeq(Slots(count), IsFirst)
        NewIndexOf(i) == (CHOOSE k \in DOMAIN firsts : Key(firsts[k]) = Key(i)) - 1
        Merged(attribute) ==
            [array |-> [k \in 1..(Len(firsts) * attribute.itemSize) |->
                           ItemAt(attribute, firsts[((k - 1) \div attribute.itemSize) + 1])
                               [((k - 1) % attribute.itemSize) + 1]],
             itemSize |-> attribute.itemSize]
    IN  [index |-> [i1 \in 1..count |-> NewIndexOf(i1 - 1)],
         attributes |-> [n \in DOMAIN geom.attributes |-> Merged(geom.attributes[n])]]

\* lines 178-186: no index, and BufferGeometryUtils merges the vertices
MergeVertices ==
    /\ pc = "merge"
    /\ utilsDefined
    /\ work' = MergeVerticesOf(work)
    /\ local' = "merged"
    /\ pc' = "tables"
    /\ UNCHANGED <<geometry, params, history, scratch, geo, hadNormals, oldNormals, normals,
                   pointToIndexMap, splitIndexes, groups, result>>

\* lines 188-195: computeNormals() and mapPositionsToIndexes()
BuildTables ==
    /\ pc = "tables"
    /\ normals' = ComputeNormalsOf(work.index, work.attributes["position"].array)
    /\ pointToIndexMap' =
         MapPositionsToIndexesOf(work.index, work.attributes["position"].array)
    /\ scratch' = ScratchAfterNormals(scratch, work.index,
                                       work.attributes["position"].array)
    /\ pc' = "split"
    /\ UNCHANGED <<geometry, local, params, history, geo, hadNormals, oldNormals,
                   work, splitIndexes, groups, result>>

\* the entries of the map the loop of lines 199-203 gets through: all of
\* them, or those before the first hole, where edgeSplit( undefined, .. )
\* throws on indexes.length
Processed(map) ==
    LET holes == {v1 \in 1..Len(map) : map[v1].hole}
    IN  IF holes = {} THEN Len(map)
        ELSE (CHOOSE h \in holes : \A g \in holes : h <= g) - 1

\* the groups emitted for each processed vertex
GroupsOf(nrm, map, angle) ==
    [v1 \in 1..Processed(map) |-> edgeSplit(nrm, map[v1].list, CutOff(angle), Null)]

RECURSIVE Flatten(_)
Flatten(ss) == IF ss = <<>> THEN <<>> ELSE Head(ss) \o Flatten(Tail(ss))

\* lines 197-203: edgeSplit on every entry of pointToIndexMap
SplitAll ==
    /\ pc = "split"
    /\ groups' = GroupsOf(normals, pointToIndexMap, cutOffAngle)
    /\ splitIndexes' = FreshArray(splitIndexes) \o SelectSeq(Flatten(groups'), IsPushed)
    /\ scratch' = ScratchAfterSplits(scratch, normals, pointToIndexMap,
                                     CutOff(cutOffAngle), Processed(pointToIndexMap))
    /\ pc' = IF Processed(pointToIndexMap) = Len(pointToIndexMap)
             THEN "rebuild" ELSE "threw"
    /\ UNCHANGED <<geometry, local, params, history, geo, hadNormals, oldNormals,
                   work, normals, pointToIndexMap, result>>

\* the copy of an item that leaves out + j on the right-hand side
CopyItemFirstComponent(array, itemSize, from, to) ==
    [k \in DOMAIN array |->
        IF (k - 1) \div itemSize = to
        THEN array[from * itemSize + 1]
        ELSE array[k]]

\* one vertex item of a flat array copied onto another:
\* array[ to * itemSize + j ] = array[ from * itemSize + j ] for each j
CopyItem(array, itemSize, from, to) ==
    [k \in DOMAIN array |->
        IF (k - 1) \div itemSize = to
        THEN array[from * itemSize + ((k - 1) % itemSize) + 1]
        ELSE array[k]]

\* the index left as it was: no slot is given the new vertex
RedirectNothing(newIndexes, slots, value) == newIndexes

\* the new index pushed for each j of slots instead of written at j
RedirectAppend(newIndexes, slots, value) ==
    newIndexes \o [n \in DOMAIN slots |-> value]

\* newIndexes[ j ] = value for each j of slots
Redirect(newIndexes, slots, value) ==
    [k \in DOMAIN newIndexes |->
        IF \E n \in DOMAIN slots : slots[n] = k - 1 THEN value ELSE newIndexes[k]]

\* the new array allocated one entry too long
ExtendedOffByOne(array, length) ==
    [k \in 1..(length + 1) |-> IF k <= Len(array) THEN array[k] ELSE 0]

\* new oldAttribute.array.constructor( count * itemSize ) followed by
\* newArray.set( oldAttribute.array ): the old values, then zeros
Extended(array, length) ==
    [k \in 1..length |-> IF k <= Len(array) THEN array[k] ELSE 0]

\* lines 225-247, from split i on: the new slot old_nb + i receives the
\* attribute values of the vertex indexes[ split.original ], and the slots
\* of the group are redirected to it
RECURSIVE ApplySplits(_, _, _, _, _, _)
ApplySplits(i, splits, indexes, old_nb, attrs, newIndexes) ==
    IF i >= Len(splits) THEN [attributes |-> attrs, index |-> newIndexes]
    ELSE LET split == At(splits, i)
             index == At(indexes, split.original)
         IN  ApplySplits(i + 1, splits, indexes, old_nb,
                 [n \in DOMAIN attrs |->
                     [array |-> CopyItem(attrs[n].array, attrs[n].itemSize,
                                         index, old_nb + i),
                      itemSize |-> attrs[n].itemSize]],
                 Redirect(newIndexes, split.indexes, old_nb + i))

\* lines 205-256: the rebuilt geometry, before its normals: new arrays
\* (lines 217, 223) in a new BufferGeometry (line 249)
RebuildOf(geom, splits) ==
    LET positions == geom.attributes["position"]
        old_nb_indices == Len(positions.array) \div positions.itemSize
        new_nb_indices == old_nb_indices + Len(splits)
        newAttributes ==
            [n \in DOMAIN geom.attributes |->
                [array |-> Extended(geom.attributes[n].array,
                                    new_nb_indices * geom.attributes[n].itemSize),
                 itemSize |-> geom.attributes[n].itemSize]]
    IN  ApplySplits(0, splits, geom.index, old_nb_indices, newAttributes, geom.index)

Rebuild ==
    /\ pc = "rebuild"
    /\ result' = RebuildOf(work, splitIndexes)
    /\ local' = "new"
    /\ pc' = "reconcile"
    /\ UNCHANGED <<geometry, params, history, scratch, geo, hadNormals, oldNormals,
                   work, normals, pointToIndexMap, splitIndexes, groups>>

\* the sum of the vectors vs[k], k = 1 .. n
RECURSIVE SumVec(_, _)
SumVec(vs, n) == IF n = 0 THEN <<0, 0, 0>> ELSE Add(SumVec(vs, n - 1), vs[n])

\* BufferGeometry.computeVertexNormals of three.js on an indexed geometry:
\* every triangle adds cross(pC - pB, pA - pB) to the normal of each of its
\* three corners' vertices; normalizeNormals then normalizes each vertex.
\* A triangle with a vertex past the end of the position array adds NaN.
ComputeVertexNormalsOf(geom) ==
    LET positions == geom.attributes["position"].array
        count == Len(positions) \div 3
        FaceCross(slot) ==
            LET i == 3 * (slot \div 3)
                A == Vec3At(positions, At(geom.index, i))
                B == Vec3At(positions, At(geom.index, i + 1))
                C == Vec3At(positions, At(geom.index, i + 2))
            IN  Cross(Sub(C, B), Sub(A, B))
        Broken(slot) ==
            \E j \in 0..2 : ~InRange(positions, At(geom.index, 3 * (slot \div 3) + j))
        VertexNormal(v) ==
            LET IsRef(slot) == At(geom.index, slot) = v
                mine == SelectSeq(Slots(Len(geom.index)), IsRef)
                contrib == [k \in 1..Len(mine) |-> FaceCross(mine[k])]
            IN  IF \E k \in 1..Len(mine) : Broken(mine[k])
                THEN <<NaN, NaN, NaN>>
                ELSE Normalize(IntVec(SumVec(contrib, Len(contrib))))
    IN  [k \in 1..(3 * count) |-> VertexNormal((k - 1) \div 3)[((k - 1) % 3) + 1]]

\* lines 264-267: new Array( oldNormals.length / 3 ).fill( false ), then
\* changedNormals[ splitData.original ] = true for every split; an
\* assignment past the end lengthens the array and leaves holes
ChangedNormalsOf(oldLength, splits) ==
    LET marked == {splits[k].original : k \in DOMAIN splits}
        reach == {m + 1 : m \in marked} \cup {oldLength}
        length == CHOOSE r \in reach : \A q \in reach : q <= r
    IN  [i1 \in 1..length |->
            IF (i1 - 1) \in marked THEN "true"
            ELSE IF i1 <= oldLength THEN "false"
            ELSE "hole"]

\* lines 269-278: the old normal written back where changedNormals[ i ]
\* is false
Restored(normalArray, old, changedNormals) ==
    [k \in DOMAIN normalArray |->
        LET i == (k - 1) \div 3
        IN  IF i < Len(changedNormals) /\ At(changedNormals, i) = "false"
            THEN old[k] ELSE normalArray[k]]

\* the normals computed without the test of hadNormals
ReconcileOfUnconditional(geom, had, old, splits) ==
    LET computed == ComputeVertexNormalsOf(geom)
        final == IF old.isNull THEN computed
                 ELSE Restored(computed, old.array,
                          ChangedNormalsOf(Len(old.array) \div 3, splits))
    IN  [index |-> geom.index,
         attributes |->
             [n \in (DOMAIN geom.attributes) \cup {"normal"} |->
                 IF n = "normal" THEN [array |-> final, itemSize |-> 3]
                 ELSE geom.attributes[n]]]

\* lines 258-283: the normals of the geometry that modify returns
ReconcileOf(geom, had, old, splits) ==
    IF ~had THEN geom
    ELSE LET computed == ComputeVertexNormalsOf(geom)
             final == IF old.isNull THEN computed
                      ELSE Restored(computed, old.array,
                               ChangedNormalsOf(Len(old.array) \div 3, splits))
         IN  [index |-> geom.index,
              attributes |->
                  [n \in (DOMAIN geom.attributes) \cup {"normal"} |->
                      IF n = "normal" THEN [array |-> final, itemSize |-> 3]
                      ELSE geom.attributes[n]]]

ReconcileNormals ==
    /\ pc = "reconcile"
    /\ result' = ReconcileOf(result, hadNormals, oldNormals, splitIndexes)
    /\ pc' = "done"
    /\ UNCHANGED <<geometry, local, params, history, scratch, geo, hadNormals, oldNormals,
                   work, normals, pointToIndexMap, splitIndexes, groups>>

Next ==
    \/ Prepare
    \/ BuildTables
    \/ SplitAll
    \/ Rebuild
    \/ ReconcileNormals

Spec == Init /\ [][Next]_vars

----------------------------------------------------------------------------
(* edgeSplit on fans: meshes of n triangles 0 p q around vertex 0, whose   *)
(* face normals are drawn from five directions of a half circle, 45        *)
(* degrees apart.  A fan carries no normal attribute, so FanSpec starts    *)
(* modify in the state Prepare leaves, and runs it up to the end of the    *)
(* loop of lines 199-203.                                                  *)

\* the third point of a fan triangle, relative to vertex 0, for each of the
\* face normals (1,0,0), (1,1,0), (0,1,0), (-1,1,0), (-1,0,0)
FanRim == << <<0, -1, 0>>, <<1, -1, 0>>, <<1, 0, 0>>, <<1, 1, 0>>, <<0, 1, 0>> >>

\* vertex 0, then for each triangle a vertex above vertex 0 and a rim vertex
FanPositions(ds) ==
    LET centre == <<2, 2, 2>>
        point(v) == IF v = 0 THEN centre
                    ELSE IF v % 2 = 1 THEN Add(centre, <<0, 0, 1>>)
                    ELSE Add(centre, FanRim[ds[v \div 2]])
    IN  [k \in 1..(3 * (2 * Len(ds) + 1)) |-> point((k - 1) \div 3)[((k - 1) % 3) + 1]]

FanMesh(ds) ==
    [index |-> IndexOf([k \in 1..Len(ds) |-> <<0, 2 * k - 1, 2 * k>>]),
     attributes |-> [n \in {"position"} |->
                        [array |-> FanPositions(ds), itemSize |-> 3]]]

\* the two angles that tell the directions of a fan apart: neighbours
\* (45 degrees) are compatible under both, directions 90 degrees apart
\* under pi/2 only
FanAngles == {"pi/3", "pi/2"}

FanInit ==
    /\ \E n \in 1..MaxFan : \E ds \in [1..n -> 1..Len(FanRim)] :
          geometry = FanMesh(ds)
    /\ given = geometry
    /\ isGeometry = FALSE
    /\ indexed = TRUE
    /\ utilsDefined = TRUE
    /\ local = "caller"
    /\ cutOffAngle \in FanAngles
    /\ tryKeepNormals = TRUE
    /\ pc = "tables"
    /\ hadNormals = FALSE
    /\ oldNormals = [isNull |-> TRUE, array |-> <<>>]
    /\ work = geometry
    /\ normals = <<>>
    /\ pointToIndexMap = <<>>
    /\ splitIndexes = <<>>
    /\ groups = <<>>
    /\ result = NoMesh
    /\ FirstCall
    /\ GeoIdle

FanNext == BuildTables \/ SplitAll

FanSpec == FanInit /\ [][FanNext]_vars

----------------------------------------------------------------------------
(* modify on every form of input: a legacy Geometry, an indexed            *)
(* BufferGeometry, and a BufferGeometry without index, with                *)
(* BufferGeometryUtils defined or not                                      *)

\* largest number of triangles of an input mesh of FormSpec
MaxFormTris == 2

\* the two angles of FormSpec: under "0" the faces of the menu are split
\* apart, under "pi/2" the faces at a right angle are kept together
FormAngles == {"0", "pi/2"}

\* a mesh without index: three vertices for each triangle, every attribute
\* of a vertex taken from the vertex the corner referenced
SoupOf(mesh) ==
    LET Unrolled(attribute) ==
            [array |-> [k \in 1..(Len(mesh.index) * attribute.itemSize) |->
                           ItemAt(attribute, mesh.index[((k - 1) \div attribute.itemSize) + 1])
                               [((k - 1) % attribute.itemSize) + 1]],
             itemSize |-> attribute.itemSize]
    IN  [index |-> <<>>,
         attributes |-> [n \in DOMAIN mesh.attributes |-> Unrolled(mesh.attributes[n])]]

FormInit ==
    /\ \E ig, ix, ud \in BOOLEAN :
          /\ ig => ix
          /\ ix => ud
          /\ isGeometry = ig
          /\ indexed = ix
          /\ utilsDefined = ud
    /\ \E V \in VertexCounts, withNormals \in BOOLEAN, T \in 1..MaxFormTris :
          \E tris \in [1..T -> MenuOf(V)] :
             geometry = IF indexed THEN MeshOf(V, tris, withNormals)
                        ELSE SoupOf(MeshOf(V, tris, withNormals))
    /\ given = geometry
    /\ local = "caller"
    /\ cutOffAngle \in FormAngles
    /\ tryKeepNormals \in BOOLEAN
    /\ pc = "start"
    /\ hadNormals = FALSE
    /\ oldNormals = [isNull |-> TRUE, array |-> <<>>]
    /\ work = NoMesh
    /\ normals = <<>>
    /\ pointToIndexMap = <<>>
    /\ splitIndexes = <<>>
    /\ groups = <<>>
    /\ result = NoMesh
    /\ FirstCall
    /\ GeoIdle

FormNext ==
    \/ Refuse
    \/ Prepare
    \/ MergeThrow
    \/ MergeVertices
    \/ BuildTables
    \/ SplitAll
    \/ Rebuild
    \/ ReconcileNormals

FormSpec == FormInit /\ [][FormNext]_vars

----------------------------------------------------------------------------
(* modify on the unit cube with 8 shared vertices: vertex k is at          *)
(* (k % 2, (k / 2) % 2, k / 4), each face is a quad cut into two triangles *)
(* along one of its two diagonals                                          *)

\* the position array of a sequence of points
FlatPositions(points) ==
    [k \in 1..(3 * Len(points)) |-> points[((k - 1) \div 3) + 1][((k - 1) % 3) + 1]]

CubePoints == [k1 \in 1..8 |-> <<(k1 - 1) % 2, ((k1 - 1) \div 2) % 2, (k1 - 1) \div 4>>]

\* the faces -z, +z, -y, +y, -x, +x, each counter-clockwise seen from
\* outside
CubeFaces ==
    << <<0, 2, 3, 1>>, <<4, 5, 7, 6>>, <<0, 1, 5, 4>>,
       <<2, 6, 7, 3>>, <<0, 4, 6, 2>>, <<1, 3, 7, 5>> >>

\* the two triangles of the quad q cut along its diagonal d: q[1] q[3] when
\* d = 1, q[2] q[4] when d = 2
QuadTriangles(q, d) ==
    IF d = 1 THEN << <<q[1], q[2], q[3]>>, <<q[1], q[3], q[4]>> >>
    ELSE << <<q[1], q[2], q[4]>>, <<q[2], q[3], q[4]>> >>

\* the cube whose face f is cut along diagonal ds[f]
CubeMesh(ds) ==
    [index |-> IndexOf(Flatten([f \in 1..6 |-> QuadTriangles(CubeFaces[f], ds[f])])),
     attributes |-> [n \in {"position"} |->
                        [array |-> FlatPositions(CubePoints), itemSize |-> 3]]]

\* slightly below a right angle, and the right angle itself
CubeAngles == {"89deg", "pi/2"}

CubeInit ==
    /\ \E ds \in [1..6 -> 1..2] : geometry = CubeMesh(ds)
    /\ given = geometry
    /\ isGeometry = FALSE
    /\ indexed = TRUE
    /\ utilsDefined = TRUE
    /\ local = "caller"
    /\ cutOffAngle \in CubeAngles
    /\ tryKeepNormals \in BOOLEAN
    /\ pc = "start"
    /\ hadNormals = FALSE
    /\ oldNormals = [isNull |-> TRUE, array |-> <<>>]
    /\ work = NoMesh
    /\ normals = <<>>
    /\ pointToIndexMap = <<>>
    /\ splitIndexes = <<>>
    /\ groups = <<>>
    /\ result = NoMesh
    /\ FirstCall
    /\ GeoIdle

CubeSpec == CubeInit /\ [][Next]_vars

----------------------------------------------------------------------------
(* modify on a flat quad: a rectangle of sides s and t in one of the three *)
(* coordinate planes, cut along one of its diagonals, alone or with a      *)
(* third triangle standing on its first edge                               *)

\* longest side of the rectangle
MaxSide == 2

\* the point p with its coordinates rotated `plane` times
Rotated(p, plane) ==
    [j \in 1..3 |-> p[((j - 1 + plane) % 3) + 1]]

\* the corners of the rectangle and the apex of the third triangle
QuadPoints(s, t, plane) ==
    [k \in 1..5 |->
        Rotated(<< <<1, 1, 1>>, <<1 + s, 1, 1>>, <<1 + s, 1 + t, 1>>,
                   <<1, 1 + t, 1>>, <<1, 1, 2>> >>[k], plane)]

QuadMesh(s, t, plane, d, flap) ==
    LET tris == QuadTriangles(<<0, 1, 2, 3>>, d)
                  \o (IF flap THEN << <<1, 0, 4>> >> ELSE <<>>)
        points == SubSeq(QuadPoints(s, t, plane), 1, IF flap THEN 5 ELSE 4)
    IN  [index |-> IndexOf(tris),
         attributes |-> [n \in {"position"} |->
                            [array |-> FlatPositions(points), itemSize |-> 3]]]

QuadInit ==
    /\ \E s, t \in 1..MaxSide, plane \in 0..2, d \in 1..2, flap \in BOOLEAN :
          geometry = QuadMesh(s, t, plane, d, flap)
    /\ given = geometry
    /\ isGeometry = FALSE
    /\ indexed = TRUE
    /\ utilsDefined = TRUE
    /\ local = "caller"
    /\ cutOffAngle \in Angles
    /\ tryKeepNormals = TRUE
    /\ pc = "start"
    /\ hadNormals = FALSE
    /\ oldNormals = [isNull |-> TRUE, array |-> <<>>]
    /\ work = NoMesh
    /\ normals = <<>>
    /\ pointToIndexMap = <<>>
    /\ splitIndexes = <<>>
    /\ groups = <<>>
    /\ result = NoMesh
    /\ FirstCall
    /\ GeoIdle

QuadSpec == QuadInit /\ [][Next]_vars

----------------------------------------------------------------------------
(* modify on meshes whose buffers do not fit together: an index past the   *)
(* end of the position array, or a uv array one item short                 *)

\* largest number of triangles of an input mesh of InvalidSpec
MaxInvalidTris == 2

\* the mesh with the last item of its uv array left out
ShortUv(mesh) ==
    [index |-> mesh.index,
     attributes |->
        [n \in DOMAIN mesh.attributes |->
            IF n = "uv"
            THEN [array |-> SubSeq(mesh.attributes[n].array, 1,
                                   Len(mesh.attributes[n].array) - 2),
                  itemSize |-> 2]
            ELSE mesh.attributes[n]]]

\* the number of vertices of a mesh: position.count
VertexCountOf(mesh) == Len(mesh.attributes["position"].array) \div 3

\* the index buffer references a vertex past the end of the attribute
\* buffers, or an attribute buffer has not itemSize entries per vertex
InvalidTopology(mesh) ==
    \/ \E k \in DOMAIN mesh.index : mesh.index[k] >= VertexCountOf(mesh)
    \/ \E n \in DOMAIN mesh.attributes :
          Len(mesh.attributes[n].array) # VertexCountOf(mesh) * mesh.attributes[n].itemSize

\* the triangles are drawn from the whole menu, whatever the vertex count
InvalidInit ==
    /\ \E V \in VertexCounts, withNormals, short \in BOOLEAN, T \in 1..MaxInvalidTris :
          \E tris \in [1..T -> TriangleMenu] :
             /\ geometry = IF short THEN ShortUv(MeshOf(V, tris, withNormals))
                           ELSE MeshOf(V, tris, withNormals)
             /\ InvalidTopology(geometry)
    /\ given = geometry
    /\ isGeometry = FALSE
    /\ indexed = TRUE
    /\ utilsDefined = TRUE
    /\ local = "caller"
    /\ cutOffAngle \in FormAngles
    /\ tryKeepNormals \in BOOLEAN
    /\ pc = "start"
    /\ hadNormals = FALSE
    /\ oldNormals = [isNull |-> TRUE, array |-> <<>>]
    /\ work = NoMesh
    /\ normals = <<>>
    /\ pointToIndexMap = <<>>
    /\ splitIndexes = <<>>
    /\ groups = <<>>
    /\ result = NoMesh
    /\ FirstCall
    /\ GeoIdle

InvalidSpec == InvalidInit /\ [][Next]_vars

----------------------------------------------------------------------------
(* What the claims speak of *)

Done == pc = "done"

\* modify has built the geometry it returns (its normals may still follow)
Rebuilt == pc \in {"reconcile", "done"}

\* the loop of lines 199-203 has ended without throwing
SplitDone == pc \in {"rebuild", "reconcile", "done"}

InputVertexCount == Len(geometry.attributes["position"].array) \div 3

InputHasNormals == "normal" \in DOMAIN geometry.attributes

\* the vertices of the input, and the corner list of each
Vertices == 0..(InputVertexCount - 1)

CornersOf(v) == pointToIndexMap[v + 1].list

\* the groups edgeSplit emitted for vertex v, first group first
GroupsAt(v) == groups[v + 1]

\* the number of groups beyond the first, summed over the vertices
ExtraVertexCount ==
    LET extra[v \in 0..InputVertexCount] ==
            IF v = 0 THEN 0
            ELSE extra[v - 1] +
                 (IF Len(groups[v]) = 0 THEN 0 ELSE Len(groups[v]) - 1)
    IN  extra[InputVertexCount]

Range(seq) == {seq[k] : k \in DOMAIN seq}

\* the face normals of corners x and c pass the test of edgeSplitToGroups
\* with c as the seed: not ( dot < cutOff )
Compatible(x, c) ==
    ~DotLess(Normalize(Vec3At(normals, x)), Normalize(Vec3At(normals, c)),
             CutOff(cutOffAngle))

\* the normals computeVertexNormals gives the geometry that modify returns
RecomputedNormals == ComputeVertexNormalsOf(result)

----------------------------------------------------------------------------
(* C1, C2, C3, C5, C6, C8: the mesh modify returns *)

\* C1: with a normal attribute on the input and tryKeepNormals true, every
\* original vertex whose corners ended in a single group has, in the output,
\* the normal it had in the input, component for component.
C1_UnsplitNormalsRestored ==
    (Done /\ InputHasNormals /\ tryKeepNormals) =>
        \A v \in Vertices :
            Len(GroupsAt(v)) = 1 =>
                Vec3At(result.attributes["normal"].array, v)
                    = Vec3At(geometry.attributes["normal"].array, v)

\* C2: with a normal attribute on the input and tryKeepNormals true, every
\* original vertex from which an extra group was split keeps, at its slot,
\* the normal recomputed on the rebuilt mesh, and so does every appended
\* slot.
C2_SplitNormalsRecomputed ==
    (Done /\ InputHasNormals /\ tryKeepNormals) =>
        /\ \A v \in Vertices :
              Len(GroupsAt(v)) > 1 =>
                  Vec3At(result.attributes["normal"].array, v)
                      = Vec3At(RecomputedNormals, v)
        /\ \A s \in InputVertexCount..(InputVertexCount + Len(splitIndexes) - 1) :
              Vec3At(result.attributes["normal"].array, s)
                  = Vec3At(RecomputedNormals, s)

\* the part of C2 that the code keeps: no appended slot is overwritten
C2_AppendedNormalsRecomputed ==
    (Done /\ InputHasNormals /\ tryKeepNormals) =>
        \A s \in InputVertexCount..(InputVertexCount + Len(splitIndexes) - 1) :
            Vec3At(result.attributes["normal"].array, s)
                = Vec3At(RecomputedNormals, s)

\* C3: for every corner i of the output, the position and every other
\* attribute but the normal of the output slot that corner i references
\* equal those of the input vertex that corner i referenced.
C3_AttributesFollowCorners ==
    Rebuilt =>
        \A i \in 0..(Len(geometry.index) - 1) :
            \A n \in (DOMAIN geometry.attributes) \ {"normal"} :
                /\ n \in DOMAIN result.attributes
                /\ ItemAt(result.attributes[n], At(result.index, i))
                      = ItemAt(geometry.attributes[n], At(geometry.index, i))

\* C3 witness: modify has returned, vertex 0 was split into three groups
\* and the seed of its first group is corner slot 0
C3_Witness ==
    /\ Done
    /\ Len(GroupsAt(0)) >= 3
    /\ GroupsAt(0)[1].indexes[1] = 0
    /\ At(result.index, GroupsAt(0)[3].indexes[1]) >= InputVertexCount

\* C5: in the output index buffer every corner of a first group keeps its
\* input index and every corner of a later group holds an index >=
\* inputVertexCount; two corners of one input vertex hold the same output
\* index iff they are in the same group; no index >= inputVertexCount is
\* held by corners of different input vertices.
C5_IndexRewrite ==
    Rebuilt =>
        /\ \A v \in Vertices : \A g \in DOMAIN GroupsAt(v) :
              \A c \in Range(GroupsAt(v)[g].indexes) :
                  IF g = 1
                  THEN At(result.index, c) = At(geometry.index, c)
                  ELSE At(result.index, c) >= InputVertexCount
        /\ \A v \in Vertices : \A g, h \in DOMAIN GroupsAt(v) :
              \A c \in Range(GroupsAt(v)[g].indexes) :
                  \A d \in Range(GroupsAt(v)[h].indexes) :
                      (At(result.index, c) = At(result.index, d)) <=> (g = h)
        /\ \A c, d \in 0..(Len(geometry.index) - 1) :
              (At(geometry.index, c) # At(geometry.index, d)
                  /\ At(result.index, c) >= InputVertexCount)
              => At(result.index, c) # At(result.index, d)

\* C5 witness: a vertex split into three groups and another vertex split too
C5_Witness ==
    /\ Done
    /\ \E v, w \in Vertices :
          v # w /\ Len(GroupsAt(v)) >= 3 /\ Len(GroupsAt(w)) >= 2

\* C6: every attribute buffer of the output holds inputVertexCount +
\* extraVertexCount items, extraVertexCount being the number of groups
\* beyond the first summed over the vertices, which is >= 0.
C6_VertexCount ==
    Rebuilt =>
        /\ ExtraVertexCount >= 0
        /\ \A n \in DOMAIN result.attributes :
              Len(result.attributes[n].array)
                  = (InputVertexCount + ExtraVertexCount) * result.attributes[n].itemSize

\* C6 witness: an output with a normal attribute and at least two new slots
C6_Witness ==
    /\ Done
    /\ "normal" \in DOMAIN result.attributes
    /\ ExtraVertexCount >= 2

\* C8: the index buffer modify returns has the length of the input index
\* buffer.
C8_TriangleCount ==
    Rebuilt => Len(result.index) = Len(geometry.index)

\* C8 witness: modify has returned a mesh of three triangles, some split
C8_Witness ==
    /\ Done
    /\ Len(geometry.index) = 9
    /\ Len(splitIndexes) > 0

----------------------------------------------------------------------------
(* C4, C7, C9, C10: the partition edgeSplit makes, checked on the fans *)

\* the corners of vertex v that edgeSplit had not yet grouped when it
\* emitted group g: those of group g and of the groups after it
RemainingAt(v, g) ==
    UNION {Range(GroupsAt(v)[h].indexes) : h \in g..Len(GroupsAt(v))}

\* C4: for every vertex with a non-empty corner list the emitted groups are
\* a partition of that list: no group is empty, no corner is in two groups
\* or twice in one, and every corner of the list is in a group.
C4_GroupsPartition ==
    SplitDone =>
        \A v \in Vertices :
            CornersOf(v) # <<>> =>
                /\ \A g \in DOMAIN GroupsAt(v) :
                      /\ Len(GroupsAt(v)[g].indexes) > 0
                      /\ Cardinality(Range(GroupsAt(v)[g].indexes))
                            = Len(GroupsAt(v)[g].indexes)
                /\ \A g, h \in DOMAIN GroupsAt(v) :
                      g # h => Range(GroupsAt(v)[g].indexes)
                                  \cap Range(GroupsAt(v)[h].indexes) = {}
                /\ RemainingAt(v, 1) = Range(CornersOf(v))

\* C4 witness: a corner list of five corners split into three groups
C4_Witness ==
    /\ SplitDone
    /\ \E v \in Vertices : Len(CornersOf(v)) = 5 /\ Len(GroupsAt(v)) = 3

\* some corner of vertex v is compatible, as a seed, with every other one
HasCommonSeed(v) ==
    \E c \in Range(CornersOf(v)) :
        \A x \in Range(CornersOf(v)) \ {c} : Compatible(x, c)

\* C7: extraVertexCount is zero iff every vertex that has a corner has a
\* corner whose face normal is compatible with that of every other corner
\* of the vertex.
C7_NoExtraIffCommonSeed ==
    SplitDone =>
        ((Len(splitIndexes) = 0)
            <=> \A v \in Vertices : CornersOf(v) # <<>> => HasCommonSeed(v))

\* C7 witness: nothing was split although the first corner of vertex 0 is
\* not compatible with all the others
C7_Witness ==
    /\ SplitDone
    /\ Len(splitIndexes) = 0
    /\ \E x \in Range(CornersOf(0)) : ~Compatible(x, CornersOf(0)[1])

\* the corners of vertex v can be split into fewer than k groups, each
\* with a seed compatible with every other member: a set of fewer than k
\* seeds exists such that every other corner is compatible with one of them
FewerSeededGroups(v, k) ==
    LET corners == Range(CornersOf(v))
    IN  \E S \in SUBSET corners :
            /\ S # {}
            /\ Cardinality(S) < k
            /\ \A x \in corners \ S : \E c \in S : Compatible(x, c)

\* every member of every group of vertex v is compatible with the first
\* member of its group
GroupsSeeded(v) ==
    \A g \in DOMAIN GroupsAt(v) :
        \A x \in Range(GroupsAt(v)[g].indexes) \ {GroupsAt(v)[g].indexes[1]} :
            Compatible(x, GroupsAt(v)[g].indexes[1])

\* C9 as stated: the number of groups of every vertex is the least number
\* of seeded groups its corners can be split into.
C9_FewestGroups ==
    SplitDone =>
        \A v \in Vertices :
            CornersOf(v) # <<>> =>
                GroupsSeeded(v) /\ ~FewerSeededGroups(v, Len(GroupsAt(v)))

\* C9 amended: every group has a seed compatible with every other member,
\* and the number of groups is the least possible whenever edgeSplit emits
\* at most two groups for the vertex.
C9_FewestGroupsUpToTwo ==
    SplitDone =>
        \A v \in Vertices :
            CornersOf(v) # <<>> =>
                /\ GroupsSeeded(v)
                /\ Len(GroupsAt(v)) <= 2 => ~FewerSeededGroups(v, Len(GroupsAt(v)))

\* C9 witness: a vertex of at least four corners split into exactly two
\* groups, the first of which is not seeded by the first corner
C9_Witness ==
    /\ SplitDone
    /\ \E v \in Vertices :
          /\ Len(CornersOf(v)) >= 4
          /\ Len(GroupsAt(v)) = 2
          /\ GroupsAt(v)[1].indexes[1] # CornersOf(v)[1]

\* C10: every group emitted for a remaining corner list L is its first
\* member c together with exactly the x of L, x # c, whose face normal has
\* dot >= threshold with that of c, and every corner of L left for later
\* groups has dot < threshold with c; the threshold is
\* cos(cutOffAngle) - 0.001 for every vertex.
C10_GroupIsSeedNeighbourhood ==
    SplitDone =>
        \A v \in Vertices : \A g \in DOMAIN GroupsAt(v) :
            LET c == GroupsAt(v)[g].indexes[1]
                L == RemainingAt(v, g)
            IN  /\ Range(GroupsAt(v)[g].indexes)
                      = {c} \cup {x \in L \ {c} : Compatible(x, c)}
                /\ \A x \in RemainingAt(v, g + 1) : ~Compatible(x, c)

\* C10 witness: a group of two or more corners that leaves corners for
\* later groups
C10_Witness ==
    /\ SplitDone
    /\ \E v \in Vertices :
          /\ Len(GroupsAt(v)) >= 2
          /\ Len(GroupsAt(v)[1].indexes) >= 2
          /\ Len(GroupsAt(v)[2].indexes) >= 2

----------------------------------------------------------------------------
(* C11: a vertex that no corner references *)

\* C11: for an input mesh with a vertex that no corner references, the
\* corner index maps that vertex to an empty sequence, and modify completes
\* without raising an error.
C11_UnreferencedVertexCompletes ==
    pc \notin {"start", "tables"} =>
        \A v \in Vertices :
            CornersOf(v) = <<>> =>
                /\ ~pointToIndexMap[v + 1].hole
                /\ pc # "threw"

----------------------------------------------------------------------------
(* C12: buffers that do not fit together *)

\* C12: when the index buffer of the input holds a vertex index outside
\* [0, vertexCount), or an attribute buffer has a length inconsistent with
\* the vertex count, modify fails with an error before any buffer is
\* written, and returns no mesh.
C12_InvalidTopologyRejected ==
    (InvalidTopology(given) /\ pc # "start") =>
        /\ pc = "threw"
        /\ normals = <<>>
        /\ ~Rebuilt

\* modify returns a mesh for an input whose index buffer references a
\* vertex that does not exist
C12_ReturnsOnBadIndex ==
    /\ Done
    /\ \E k \in DOMAIN given.index : given.index[k] >= VertexCountOf(given)

\* modify returns a mesh for an input whose uv array is one item short
C12_ReturnsOnShortUv ==
    /\ Done
    /\ \A k \in DOMAIN given.index : given.index[k] < VertexCountOf(given)
    /\ Len(splitIndexes) > 0

----------------------------------------------------------------------------
(* C13, C14, C15, C18: the forms of input, checked under FormSpec *)

\* modify has ended by throwing
Threw == pc = "threw"

\* modify has ended by returning without a value
ReturnedNothing == pc = "refused"

\* C13: when the input mesh has no index and BufferGeometryUtils is not
\* available, modify ends by raising an error, returns no mesh, and the
\* caller's mesh (index, attribute arrays, normal attribute) is then what
\* it was before the call.
C13_NoUtilsThrowsUntouched ==
    (~isGeometry /\ ~indexed /\ ~utilsDefined) =>
        /\ geometry = given
        /\ pc \in {"start", "merge", "threw"}
        /\ result.index = <<>>
        /\ DOMAIN result.attributes = {}

\* C13 witness: modify has thrown on a mesh without index that carries a
\* normal attribute, after the clone and the deleteAttribute
C13_Witness ==
    /\ Threw
    /\ ~indexed
    /\ ~utilsDefined
    /\ hadNormals
    /\ "normal" \notin DOMAIN work.attributes

\* C14: when the input mesh is a legacy Geometry (isGeometry === true),
\* modify ends with an error raised to the caller, not with a normal
\* return, and produces no mesh.
C14_LegacyFailsWithError ==
    (isGeometry /\ pc # "start") =>
        /\ Threw
        /\ ~Rebuilt

\* the part of C14 that the code keeps: no mesh is produced for a legacy
\* Geometry
C14_LegacyProducesNoMesh ==
    isGeometry => (pc \in {"start", "refused"} /\ result.index = <<>>)

\* C15: whatever the form of the input and however modify ends, the
\* caller's mesh keeps its index buffer, its attribute arrays and its set of
\* attributes, and the mesh modify returns is the new geometry built from
\* newly allocated arrays.
C15_CallerMeshUntouched ==
    /\ geometry = given
    /\ Rebuilt => local = "new"

\* C15 witness: modify has returned a split mesh for an input without
\* index that carries a normal attribute
C15_Witness ==
    /\ Done
    /\ ~indexed
    /\ "normal" \in DOMAIN given.attributes
    /\ Len(splitIndexes) > 0

\* C18: if the input mesh carries no normal attribute, the mesh modify
\* returns carries none either.
C18_NoNormalsInNoNormalsOut ==
    (Done /\ "normal" \notin DOMAIN given.attributes) =>
        "normal" \notin DOMAIN result.attributes

\* C18 witness: modify has returned a split mesh for an input without
\* index and without normal attribute, with tryKeepNormals true
C18_Witness ==
    /\ Done
    /\ ~indexed
    /\ tryKeepNormals
    /\ "normal" \notin DOMAIN given.attributes
    /\ Len(splitIndexes) > 0

----------------------------------------------------------------------------
(* C16, C17: the two ends of the range of cutOffAngle *)

\* the face normal of corner x, as computeNormals stored it
NormalOf(x) == Vec3At(normals, x)

\* the face normal of a degenerate triangle
IsZero(n) == n = <<Scalar(0, 1), Scalar(0, 1), Scalar(0, 1)>>

\* corners x and y of vertex v are in the same group
SameGroup(v, x, y) ==
    \E g \in DOMAIN GroupsAt(v) : {x, y} \subseteq Range(GroupsAt(v)[g].indexes)

\* C16: with cutOffAngle == pi on an indexed mesh, nothing is split and the
\* mesh modify returns has the index buffer and the positions of the
\* input, and, when tryKeepNormals is true, the normals of the input at
\* every vertex.
C16_PiIsIdentity ==
    (Done /\ cutOffAngle = "pi") =>
        /\ ExtraVertexCount = 0
        /\ Len(splitIndexes) = 0
        /\ result.index = geometry.index
        /\ result.attributes["position"].array = geometry.attributes["position"].array
        /\ (InputHasNormals /\ tryKeepNormals) =>
              result.attributes["normal"].array = geometry.attributes["normal"].array

\* C16 witness: modify has returned, with cutOffAngle == pi and
\* tryKeepNormals, a mesh with authored normals in which two corners of
\* vertex 0 have face normals more than a right angle apart
C16_Witness ==
    /\ Done
    /\ cutOffAngle = "pi"
    /\ tryKeepNormals
    /\ InputHasNormals
    /\ \E x, y \in Range(CornersOf(0)) : DotLess(NormalOf(x), NormalOf(y), 0)
    /\ RecomputedNormals # result.attributes["normal"].array

----------------------------------------------------------------------------
(* C19, C20: the cube and the flat quad *)

C20_IdenticalNormalsStayTogether ==
    SplitDone =>
        /\ Len(geometry.index) = 6 => ExtraVertexCount = 0
        /\ \A v \in Vertices : \A x, y \in Range(CornersOf(v)) :
              (NormalOf(x) = NormalOf(y) /\ ~IsZero(NormalOf(x)))
                  => SameGroup(v, x, y)

\* C20 witness: with cutOffAngle == 0, a vertex of the quad keeps its two
\* corners on the quad in one group while its corner on the third triangle
\* is split off
C20_Witness ==
    /\ SplitDone
    /\ cutOffAngle = "0"
    /\ \E v \in Vertices : \E x, y, z \in Range(CornersOf(v)) :
          /\ x # y
          /\ NormalOf(x) = NormalOf(y)
          /\ SameGroup(v, x, y)
          /\ ~SameGroup(v, x, z)

\* C20 witness of the flat quad alone, at every angle above 0
C20_FlatQuadAlone ==
    /\ Done
    /\ cutOffAngle = "pi/3"
    /\ Len(geometry.index) = 6
    /\ InputVertexCount = 4
    /\ Len(result.attributes["position"].array) = 12

----------------------------------------------------------------------------
(* C22, C23, C28: the choice and the order of the groups, on the fans *)

\* the corner list edgeSplit was called with when it emitted group g of
\* vertex v: the corners not yet grouped, in corner-list order
RemainingSeq(v, g) ==
    LET Left(x) == x \in RemainingAt(v, g)
    IN  SelectSeq(CornersOf(v), Left)

\* the length of the currentGroup of the trial seeded by x when group g of
\* vertex v was chosen
TrialSize(v, g, x) ==
    1 + Cardinality({y \in RemainingAt(v, g) \ {x} : Compatible(y, x)})

\* C22: for each remaining corner list L the group emitted is the trial
\* group of the first corner of L, in corner-list order, whose trial
\* currentGroup is of maximal size: no trial is larger, and every corner
\* of L before the seed has a strictly smaller trial.
C22_EarliestLargestTrial ==
    SplitDone =>
        \A v \in Vertices : \A g \in DOMAIN GroupsAt(v) :
            LET L == RemainingSeq(v, g)
                c == GroupsAt(v)[g].indexes[1]
            IN  /\ Len(GroupsAt(v)[g].indexes) = TrialSize(v, g, c)
                /\ \A k \in DOMAIN L :
                      /\ TrialSize(v, g, L[k]) <= TrialSize(v, g, c)
                      /\ (TrialSize(v, g, L[k]) = TrialSize(v, g, c) /\ L[k] # c)
                            => \E j \in 1..(k - 1) : L[j] = c

\* C22 witness: a seed that is not the first corner of its list and that
\* ties with a later corner
C22_Witness ==
    /\ SplitDone
    /\ \E v \in Vertices : \E g \in DOMAIN GroupsAt(v) :
          LET L == RemainingSeq(v, g)
              c == GroupsAt(v)[g].indexes[1]
          IN  /\ L[1] # c
              /\ \E k \in DOMAIN L :
                    /\ L[k] > c
                    /\ TrialSize(v, g, L[k]) = TrialSize(v, g, c)

\* C23: the recursion of edgeSplit ends: each call receives a corner list
\* that is a strict part of its caller's, so a vertex gets at most as many
\* groups as it has corners, which also bounds the depth of the recursion.
C23_RecursionShrinks ==
    SplitDone =>
        \A v \in Vertices :
            /\ Len(GroupsAt(v)) <= Len(CornersOf(v))
            /\ \A g \in DOMAIN GroupsAt(v) :
                  /\ RemainingAt(v, g + 1) \subseteq RemainingAt(v, g)
                  /\ Cardinality(RemainingAt(v, g + 1)) < Cardinality(RemainingAt(v, g))

\* C23 witness: the worst case, a vertex of three corners with one group
\* for each corner
C23_Witness ==
    /\ SplitDone
    /\ \E v \in Vertices : Len(CornersOf(v)) = 3 /\ Len(GroupsAt(v)) = 3

\* C28: the groups of a vertex are emitted in order of non-increasing
\* size; in particular the first group, which keeps the vertex index, is
\* at least as large as every group split from the vertex.
C28_GroupSizesNonIncreasing ==
    SplitDone =>
        \A v \in Vertices : \A g, h \in DOMAIN GroupsAt(v) :
            g < h => Len(GroupsAt(v)[g].indexes) >= Len(GroupsAt(v)[h].indexes)

\* C28 witness: a vertex with three groups of sizes 2, 2 and 1
C28_Witness ==
    /\ SplitDone
    /\ \E v \in Vertices :
          /\ Len(GroupsAt(v)) = 3
          /\ Len(GroupsAt(v)[1].indexes) = 2
          /\ Len(GroupsAt(v)[2].indexes) = 2
          /\ Len(GroupsAt(v)[3].indexes) = 1

----------------------------------------------------------------------------
(* C24, C25, C26: degenerate triangles, the corner index, the mesh         *)
(* invariant                                                               *)

\* the corner slots of the input
CornerSlots == 0..(Len(geometry.index) - 1)

\* the triangle of corner slot x has no area: the cross product of two of
\* its edges is zero
IsDegenerate(x) ==
    LET positions == geometry.attributes["position"].array
        i == 3 * (x \div 3)
        A == Vec3At(positions, At(geometry.index, i))
        B == Vec3At(positions, At(geometry.index, i + 1))
        C == Vec3At(positions, At(geometry.index, i + 2))
    IN  Cross(Sub(C, B), Sub(A, B)) = <<0, 0, 0>>

\* every vertex of the input is referenced by a corner
AllReferenced ==
    \A w \in Vertices : \E x \in CornerSlots : At(geometry.index, x) = w

C25_CornerIndexExact ==
    pc \notin {"start", "tables"} =>
        \A v \in Vertices :
            LET list == CornersOf(v)
            IN  /\ \A k \in DOMAIN list : At(geometry.index, list[k]) = v
                /\ \A k \in 1..(Len(list) - 1) : list[k] < list[k + 1]
                /\ \A x \in CornerSlots :
                      At(geometry.index, x) = v => x \in Range(list)
                /\ pointToIndexMap[v + 1].hole <=> (list = <<>>)

\* C25 witness: a vertex referenced by three slots, two of them in one
\* triangle, next to a vertex referenced by none
C25_Witness ==
    /\ pc = "split"
    /\ \E v, w \in Vertices :
          /\ Len(CornersOf(v)) = 3
          /\ CornersOf(v)[2] = CornersOf(v)[1] + 1
          /\ CornersOf(w) = <<>>

\* the vertex count of the geometry modify built
ResultVertexCount == Len(result.attributes["position"].array) \div 3

\* C26: in the geometry modify built, every attribute holds the same
\* number of vertices, every index value is below that number, and every
\* vertex appended after those of the input is referenced by some corner.
C26_MeshInvariant ==
    Rebuilt =>
        /\ \A n \in DOMAIN result.attributes :
              Len(result.attributes[n].array) =
                  ResultVertexCount * result.attributes[n].itemSize
        /\ \A k \in DOMAIN result.index :
              result.index[k] >= 0 /\ result.index[k] < ResultVertexCount
        /\ \A slot \in InputVertexCount..(ResultVertexCount - 1) :
              \E k \in DOMAIN result.index : result.index[k] = slot

\* C26 witness: modify has returned a geometry with position, uv and
\* normal attributes and two appended vertices
C26_Witness ==
    /\ Done
    /\ DOMAIN result.attributes = {"position", "uv", "normal"}
    /\ ResultVertexCount >= InputVertexCount + 2

----------------------------------------------------------------------------
(* modify called several times in a row by one program: the module-level   *)
(* vectors _A, _B, _C live on from one call to the next                    *)

\* how many calls one behaviour makes
MaxCalls == 3

\* the index buffers of the meshes: a face and its back, and a face next
\* to a degenerate triangle
SeqTriangles ==
    { << <<0, 1, 2>>, <<0, 2, 1>> >>, << <<0, 0, 1>>, <<0, 1, 2>> >> }

SeqMeshes ==
    {MeshOf(3, tris, withNormals) : tris \in SeqTriangles, withNormals \in BOOLEAN}

SeqAngles == {"0", "pi"}

SeqInit ==
    /\ geometry \in SeqMeshes
    /\ given = geometry
    /\ isGeometry = FALSE
    /\ indexed = TRUE
    /\ utilsDefined = TRUE
    /\ local = "caller"
    /\ cutOffAngle \in SeqAngles
    /\ tryKeepNormals \in BOOLEAN
    /\ pc = "start"
    /\ hadNormals = FALSE
    /\ oldNormals = [isNull |-> TRUE, array |-> <<>>]
    /\ work = NoMesh
    /\ normals = <<>>
    /\ pointToIndexMap = <<>>
    /\ splitIndexes = <<>>
    /\ groups = <<>>
    /\ result = NoMesh
    /\ FirstCall
    /\ GeoIdle

\* the arguments of the call in progress
Arguments == <<given, cutOffAngle, tryKeepNormals>>

\* modify has returned and the program calls it again, on any mesh.  The
\* locals of the new call hold nothing before they are assigned; the
\* variables of the model keep the values of the call before until then.
\* _A, _B, _C (lines 4-6) are the same objects as before.
CallAgain ==
    /\ pc = "done"
    /\ calls < MaxCalls
    /\ calls' = calls + 1
    /\ returned' = Append(returned, [input |-> Arguments, output |-> result,
                                     scratch |-> scratch])
    /\ geometry' \in SeqMeshes
    /\ given' = geometry'
    /\ cutOffAngle' \in SeqAngles
    /\ tryKeepNormals' \in BOOLEAN
    /\ local' = "caller"
    /\ pc' = "start"
    /\ UNCHANGED <<isGeometry, indexed, utilsDefined, scratch, geo, hadNormals,
                   oldNormals, work, normals, pointToIndexMap, splitIndexes,
                   groups, result>>

SeqNext ==
    \/ Prepare
    \/ BuildTables
    \/ SplitAll
    \/ Rebuild
    \/ ReconcileNormals
    \/ CallAgain

SeqSpec == SeqInit /\ [][SeqNext]_vars

----------------------------------------------------------------------------
(* src/geometries/Cone.ts: Ray.prototype.intersectCone.  Coordinates are   *)
(* integers; the cones have theta = pi/4, so cos_sqr = 1/2, and c2, c1, c0 *)
(* are kept multiplied by 2, which leaves the roots as they are            *)

\* the largest coordinate of a ray origin
MaxCoord == 2

\* +Infinity, the default of cone.sup: above every distance of the model
Infinity == 1000

\* modify is not running
ModifyIdle ==
    /\ geometry = NoMesh
    /\ given = NoMesh
    /\ isGeometry = FALSE
    /\ indexed = TRUE
    /\ utilsDefined = TRUE
    /\ local = "caller"
    /\ cutOffAngle = "0"
    /\ tryKeepNormals = TRUE
    /\ pc = "idle"
    /\ hadNormals = FALSE
    /\ oldNormals = [isNull |-> TRUE, array |-> <<>>]
    /\ work = NoMesh
    /\ normals = <<>>
    /\ pointToIndexMap = <<>>
    /\ splitIndexes = <<>>
    /\ groups = <<>>
    /\ result = NoMesh
    /\ FirstCall

\* Vector3.dot
Dot(a, b) == a[1] * b[1] + a[2] * b[2] + a[3] * b[3]

\* Ray.at( t ): origin + t * direction
RayAt(r, t) ==
    <<r.origin[1] + t * r.direction[1], r.origin[2] + t * r.direction[2],
      r.origin[3] + t * r.direction[3]>>

\* 2 * cos_sqr, with cos_sqr = cosTheta * cosTheta
TwiceCosSqr(theta) == CASE theta = "pi/4" -> 1

\* Math.sqrt of a perfect square
Sqrt(n) == CHOOSE q \in 0..n : q * q = n

\* 1 / x for x = 1 and x = -1
Inverse(x) == CHOOSE y \in {-1, 1} : x * y = 1

\* the coefficients of Q(t) = c2 * t^2 + 2 * c1 * t + c0, lines 120-129,
\* each multiplied by 2
Quadratic(r, c) ==
    LET K == TwiceCosSqr(c.theta)
        AdD == Dot(c.axis, r.direction)
        E == Sub(r.origin, c.v)
        AdE == Dot(c.axis, E)
        DdE == Dot(r.direction, E)
        EdE == Dot(E, E)
    IN  [c2 |-> 2 * AdD * AdD - K,
         c1 |-> 2 * AdD * AdE - K * DdE,
         c0 |-> 2 * AdE * AdE - K * EdE]

\* lines 154-157, 165-168: E.subVectors( point, cone.v ), dot =
\* E.dot( cone.axis ), dot > cone.inf && dot < cone.sup
InCone(c, point) ==
    LET dot == Dot(Sub(point, c.v), c.axis)
    IN  dot > c.inf /\ dot < c.sup

Hit(point) == [isNull |-> FALSE, point |-> point]

\* lines 133-189: the branch Math.abs( c2 ) >= 0, which every c2 takes.
\* c1 * c1 - c0 * c2 is 4 times the discr of the code and its root twice
\* the root of the code, so ( -c1 - root ) * invC2 is t itself.
intersectCone(r, c) ==
    LET q == Quadratic(r, c)
        discr == q.c1 * q.c1 - q.c0 * q.c2
    IN  IF discr < 0 THEN NoHit
        ELSE IF discr > 0
        THEN LET root == Sqrt(discr)
                 invC2 == Inverse(q.c2)
                 t == (-q.c1 - root) * invC2
                 first == t > 0 /\ InCone(c, RayAt(r, t))
                 t2 == (-q.c1 + root) * invC2
                 second == t2 > 0 /\ t2 < t /\ InCone(c, RayAt(r, t2))
             IN  IF second THEN Hit(RayAt(r, t2))
                 ELSE IF first THEN Hit(RayAt(r, t))
                 ELSE NoHit
        ELSE LET t == q.c1 * Inverse(q.c2)
             IN  IF InCone(c, RayAt(r, t)) THEN Hit(RayAt(r, t)) ELSE NoHit

\* the rays: from a point of the plane y = 0 along +x, -x, +z or -z
ConeRays ==
    {[origin |-> <<x, 0, z>>, direction |-> d] :
        x \in (-MaxCoord)..MaxCoord, z \in (-MaxCoord)..MaxCoord,
        d \in {<<1, 0, 0>>, <<-1, 0, 0>>, <<0, 0, 1>>, <<0, 0, -1>>}}

\* the cones: vertex on the z axis, axis +z, theta = pi/4, truncated or not
Cones ==
    {[v |-> <<0, 0, vz>>, axis |-> <<0, 0, 1>>, theta |-> "pi/4",
      inf |-> inf, sup |-> sup] :
        vz \in {0, 1}, inf \in {0, 1}, sup \in {2, Infinity}}

ConeInit ==
    /\ ModifyIdle
    /\ ray \in ConeRays
    /\ cone \in Cones
    /\ hit = NotCalled
    /\ frustum = NewConeFrustum
    /\ cloned = NotCloned
    /\ heap = [o \in {"target2"} |-> <<0, 0, 0>>]
    /\ hits = <<>>

\* ray.intersectCone( cone, target )
IntersectCone ==
    /\ ~hit.called
    /\ hit' = [called |-> TRUE, value |-> intersectCone(ray, cone)]
    /\ UNCHANGED <<geometry, local, params, history, scratch, pc, hadNormals,
                   oldNormals, work, normals, pointToIndexMap, splitIndexes,
                   groups, result, ray, cone, frustum, cloned, heap, hits>>

ConeNext == IntersectCone

ConeSpec == ConeInit /\ [][ConeNext]_vars

\* the positive t with Q(t) = 0 whose point ray.at( t ) lies between
\* cone.inf and cone.sup along the axis
ValidRoots ==
    LET q == Quadratic(ray, cone)
    IN  {t \in 1..(4 * MaxCoord + 4) :
            /\ q.c2 * t * t + 2 * q.c1 * t + q.c0 = 0
            /\ InCone(cone, RayAt(ray, t))}

TwoDistinctRoots ==
    LET q == Quadratic(ray, cone)
    IN  q.c2 # 0 /\ q.c1 * q.c1 - q.c0 * q.c2 > 0

\* C21: when the quadratic has two distinct real roots and a positive one
\* gives a point between cone.inf and cone.sup, intersectCone returns a
\* point, the one of the smallest such root.
C21_ReturnsFirstValidHit ==
    (hit.called /\ TwoDistinctRoots /\ ValidRoots # {}) =>
        /\ ~hit.value.isNull
        /\ \E t \in ValidRoots :
              /\ \A t2 \in ValidRoots : t <= t2
              /\ hit.value.point = RayAt(ray, t)

----------------------------------------------------------------------------
(* src/geometries/Cone.ts: ConeFrustum.copy, clone and equals *)

\* frustum.copy( other ) on the object self: the five fields are assigned,
\* and the method ends without a return statement
ConeFrustumCopy(self, other) ==
    [self |-> [isUndefined |-> FALSE, base |-> other.base, axis |-> other.axis,
               height |-> other.height, radius0 |-> other.radius0,
               radius1 |-> other.radius1],
     value |-> Undefined]

\* clone(): return new ConeFrustum().copy( this )
ConeFrustumClone(self) == ConeFrustumCopy(NewConeFrustum, self).value

\* a.equals( b )
ConeFrustumEquals(a, b) ==
    /\ a.base = b.base
    /\ a.axis = b.axis
    /\ a.height = b.height
    /\ a.radius0 = b.radius0
    /\ a.radius1 = b.radius1

\* the frusta: two bases, the three axes, heights 1 and 2, radii 0 to 2
Frusta ==
    {[isUndefined |-> FALSE, base |-> b, axis |-> a, height |-> h,
      radius0 |-> r0, radius1 |-> r1] :
        b \in {<<0, 0, 0>>, <<1, 0, 2>>},
        a \in {<<1, 0, 0>>, <<0, 1, 0>>, <<0, 0, 1>>},
        h \in {1, 2}, r0 \in {0, 1, 2}, r1 \in {0, 1, 2}}

CloneInit ==
    /\ ModifyIdle
    /\ ray = [origin |-> <<0, 0, 0>>, direction |-> <<0, 0, -1>>]
    /\ cone = [v |-> <<0, 0, 0>>, axis |-> <<0, 0, 1>>, theta |-> "pi/4",
               inf |-> 0, sup |-> 1]
    /\ hit = NotCalled
    /\ frustum \in Frusta
    /\ cloned = NotCloned
    /\ heap = [o \in {"target2"} |-> <<0, 0, 0>>]
    /\ hits = <<>>

\* frustum.clone()
Clone ==
    /\ ~cloned.called
    /\ cloned' = [called |-> TRUE, value |-> ConeFrustumClone(frustum)]
    /\ UNCHANGED <<geometry, local, params, history, scratch, pc, hadNormals,
                   oldNormals, work, normals, pointToIndexMap, splitIndexes,
                   groups, result, ray, cone, hit, frustum, heap, hits>>

CloneNext == Clone

CloneSpec == CloneInit /\ [][CloneNext]_vars

\* C29: what frustum.clone() returns is a ConeFrustum that equals the
\* frustum: same base, axis, height, radius0 and radius1.
C29_CloneEqualsOriginal ==
    cloned.called =>
        /\ ~cloned.value.isUndefined
        /\ ConeFrustumEquals(cloned.value, frustum)

----------------------------------------------------------------------------
(* Ray.prototype.intersectsConeFrustum, on cylinders (radius0 = radius1)   *)
(* around the z axis and rays of the plane y = 0 along +x, -x, +z or -z    *)

\* how many hit points one behaviour collects
MaxHits == 2

\* a / b where b divides a
Quotient(a, b) == IF b < 0 THEN (-a) \div (-b) ELSE a \div b

\* the Vector3 objects: the static target2 of the closure, and a vector of
\* the caller that can be passed as target
Objects == {"target2", "a"}

\* the target argument: one of the caller's vectors, or none
Targets == {"null", "a"}

\* u.copy( D ), u.addScaledVector( this.direction, t ),
\* d = frustum.axis.dot( u ), t >= 0 && d >= 0 && d <= frustum.height
OnFrustum(r, f, D, t) ==
    LET u == Add(D, <<t * r.direction[1], t * r.direction[2], t * r.direction[3]>>)
        d == Dot(f.axis, u)
    IN  t >= 0 /\ d >= 0 /\ d <= f.height

\* frustum.base + D + t * direction: what target2.addVectors( frustum.base, u )
\* stores
FrustumPoint(r, f, D, t) ==
    Add(f.base, Add(D, <<t * r.direction[1], t * r.direction[2], t * r.direction[3]>>))

\* target2.addVectors( .. ) followed by target.copy( target2 ), where
\* target is target2 itself when the argument was null (lines 9-10)
Stored(h, target, point) ==
    [o \in DOMAIN h |->
        IF o = "target2" \/ o = target THEN point ELSE h[o]]

\* ray.intersectsConeFrustum( frustum, target ) on the heap h: the heap
\* afterwards and the object returned ("null" for null).  deltaR / height
\* is exact on the frusta of the model.
intersectsConeFrustum(r, f, target, h) ==
    LET deltaR == f.radius1 - f.radius0
        ratio == Quotient(deltaR, f.height)
        rr == 1 + ratio * ratio
        R == f.radius0 * ratio
        D == Sub(r.origin, f.base)
        DdA == Dot(D, f.axis)
        DdD == Dot(D, D)
        VdA == Dot(r.direction, f.axis)
        VdD == Dot(r.direction, D)
        VdV == Dot(r.direction, r.direction)
        c0 == f.radius0 * f.radius0 + 2 * R * DdA + rr * DdA * DdA - DdD
        c1 == R * VdA + rr * DdA * VdA - VdD
        c2 == rr * VdA * VdA - VdV
        discr == c1 * c1 - c2 * c0
        null == [heap |-> h, ref |-> "null"]
    IN  IF c2 # 0
        THEN IF discr < 0 THEN null
             ELSE IF discr = 0
             THEN LET t == Quotient(-c1, c2)
                  IN  IF OnFrustum(r, f, D, t)
                      THEN [heap |-> Stored(h, target, FrustumPoint(r, f, D, t)),
                            ref |-> "target2"]
                      ELSE null
             ELSE LET root == Sqrt(discr)
                      t0 == Quotient(-c1 - root, c2)
                      t1 == Quotient(-c1 + root, c2)
                      first == OnFrustum(r, f, D, t0)
                      second == /\ t1 >= 0
                                /\ (~first \/ t0 > t1)
                                /\ OnFrustum(r, f, D, t1)
                      \* target2 after the two tests, written before
                      \* target.copy( target2 )
                      point == IF second THEN FrustumPoint(r, f, D, t1)
                               ELSE FrustumPoint(r, f, D, t0)
                  IN  IF first \/ second
                      THEN [heap |-> Stored(h, target, point), ref |-> "target2"]
                      ELSE null
        ELSE IF c1 # 0
        THEN LET t == Quotient(-2 * c0, c1)
             IN  IF OnFrustum(r, f, D, t)
                 THEN [heap |-> Stored(h, target, FrustumPoint(r, f, D, t)),
                       ref |-> IF target = "null" THEN "target2" ELSE target]
                 ELSE null
        ELSE null

\* the rays of the calls
FrustumRays ==
    {[origin |-> <<x, 0, z>>, direction |-> d] :
        x \in (-MaxCoord)..MaxCoord, z \in {0, 1, 2},
        d \in {<<1, 0, 0>>, <<-1, 0, 0>>, <<0, 0, 1>>, <<0, 0, -1>>}}

\* the frusta of the calls: cylinders of height 1 or 2 on the plane z = 0,
\* of radius 0 (a segment), 1 or 2
Cylinders ==
    {[isUndefined |-> FALSE, base |-> <<0, 0, 0>>, axis |-> <<0, 0, 1>>,
      height |-> h, radius0 |-> rho, radius1 |-> rho] :
        h \in {1, 2}, rho \in {0, 1, 2}}

HitInit ==
    /\ ModifyIdle
    /\ ray = [origin |-> <<0, 0, 0>>, direction |-> <<0, 0, -1>>]
    /\ cone = [v |-> <<0, 0, 0>>, axis |-> <<0, 0, 1>>, theta |-> "pi/4",
               inf |-> 0, sup |-> 1]
    /\ hit = NotCalled
    /\ frustum = NewConeFrustum
    /\ cloned = NotCloned
    /\ heap = [o \in Objects |-> <<0, 0, 0>>]
    /\ hits = <<>>

\* one call r.intersectsConeFrustum( f, target ), on any ray and frustum,
\* with or without target; a vector it returns is kept by the caller
IntersectsConeFrustum ==
    /\ Len(hits) < MaxHits
    /\ \E r \in FrustumRays, f \in Cylinders, target \in Targets :
          LET out == intersectsConeFrustum(r, f, target, heap)
          IN  /\ heap' = out.heap
              /\ hits' = IF out.ref = "null" THEN hits
                         ELSE Append(hits, [ref |-> out.ref,
                                            point |-> out.heap[out.ref]])
    /\ UNCHANGED <<geometry, local, params, history, scratch, pc, hadNormals,
                   oldNormals, work, normals, pointToIndexMap, splitIndexes,
                   groups, result, ray, cone, hit, frustum, cloned>>

HitNext == IntersectsConeFrustum

HitSpec == HitInit /\ [][HitNext]_vars

\* C30: the vector a call of intersectsConeFrustum returned still holds
\* the hit point of that call after every later call.
C30_ReturnedPointKept ==
    \A k \in DOMAIN hits : heap[hits[k].ref] = hits[k].point

====
